---------------------------- MODULE Spec2Model ----------------------------
(***************************************************************************)
(* Model of the resumable batch geocoding runners                          *)
(*   get_coordinates_for_locations   (geocoding_functions.py, Google Maps) *)
(*   get_coordinates_with_nominatim  (nominatim_geocoding.py, Nominatim)   *)
(* and of the result validator is_valid_geocode_result.                    *)
(*                                                                         *)
(* Text values (names, addresses, queries, cell contents) are sequences of *)
(* one-character strings, so that strip(), lower(), concatenation and the  *)
(* CSV encoding are computed and not assumed.  A missing value (None, NaN) *)
(* is the one-element sequence Null, which no text can equal.  Numbers are *)
(* held as their canonical decimal text: to_csv writes exactly that text   *)
(* and read_csv parses it back to the same value.                          *)
(***************************************************************************)
EXTENDS Integers, Sequences, FiniteSets, TLC

VARIABLES
    provider,                        \* which runner is called: "google" | "nominatim"
    country,                         \* parameter country (Null when None)
    search_without_locality_filter,  \* parameter of the Google runner
    input_df,                        \* parameter input_df: sequence of rows
    output_file,                     \* the destination: [exists, cols, rows]
    result_df,                       \* local result_df: sequence of rows
    processed_indices,               \* local processed_indices
    rows_to_process,                 \* local rows_to_process
    i,                               \* loop variable i of enumerate(rows_to_process)
    query,                           \* local query of the current row
    response,                        \* value returned by the provider call
    pc,                              \* position in the runner
    run,                             \* the current invocation: "first" | "second"
    failures,                        \* provider calls that raised in this run
    log,                             \* observable events of this run, in order
    history,                         \* what the first invocation left: destination, result, log
    v_pc, v_address, v_country, v_result,  \* harness of the validator
    fallback_without_location_filter,      \* app.py: the checkbox of the Google provider
    error_threshold,                 \* app.py: "Error Detection Threshold"
    potential_errors,                \* value returned by find_potential_errors
    summary,                         \* first value returned by display_summary
    updated_df,                      \* second value returned by display_summary
    progress_callback                \* parameter progress_callback: "returns" | "faulty"

runnerVars == <<provider, country, search_without_locality_filter, input_df,
                output_file, result_df, processed_indices, rows_to_process, i,
                query, response, pc, run, failures, log, history>>
validatorVars == <<v_pc, v_address, v_country, v_result>>
appVars == <<fallback_without_location_filter, error_threshold, potential_errors,
             summary, updated_df, progress_callback>>
vars == <<runnerVars, validatorVars, appVars>>

-----------------------------------------------------------------------------
(* Bounds of the model *)

\* longest input table among the exhaustively enumerated small tables
MaxRows == 2
\* provider calls that may raise in one run
MaxFailures == 1
\* most distinct names that share one coordinate pair in a report table
MaxNames == 6

\* sizes of the long input tables (checkpoint rule: 11 > 10, and the 23 rows
\* of the checkpointing property)
LargeSizes == {11, 23}

-----------------------------------------------------------------------------
(* Text *)

\* None / NaN
Null == <<"NaN">>

\* pd.notna
notna(v) == v # Null

\* truth value of a str-or-None in `if x:`
Truthy(v) == v # Null /\ v # <<>>

Whitespace == {" ", "\t", "\n"}

LowerChar(c) ==
    CASE c = "A" -> "a" [] c = "B" -> "b" [] c = "C" -> "c" [] c = "D" -> "d"
      [] c = "E" -> "e" [] c = "F" -> "f" [] c = "G" -> "g" [] c = "H" -> "h"
      [] c = "I" -> "i" [] c = "J" -> "j" [] c = "K" -> "k" [] c = "L" -> "l"
      [] c = "M" -> "m" [] c = "N" -> "n" [] c = "O" -> "o" [] c = "P" -> "p"
      [] c = "Q" -> "q" [] c = "R" -> "r" [] c = "S" -> "s" [] c = "T" -> "t"
      [] c = "U" -> "u" [] c = "V" -> "v" [] c = "W" -> "w" [] c = "X" -> "x"
      [] c = "Y" -> "y" [] c = "Z" -> "z" [] OTHER -> c

\* str.lower
Lower(s) == [k \in 1..Len(s) |-> LowerChar(s[k])]

RECURSIVE LStrip(_)
LStrip(s) == IF s # <<>> /\ Head(s) \in Whitespace THEN LStrip(Tail(s)) ELSE s

RECURSIVE RStrip(_)
RStrip(s) ==
    IF s # <<>> /\ s[Len(s)] \in Whitespace
    THEN RStrip(SubSeq(s, 1, Len(s) - 1))
    ELSE s

\* str.strip
Strip(s) == RStrip(LStrip(s))

\* c in s
Has(s, c) == \E k \in 1..Len(s) : s[k] = c

-----------------------------------------------------------------------------
(* Country reference data (pycountry.countries), three of its entries.     *)
(* Canada has no official_name in the dataset.                             *)

pycountry_countries ==
    << [name          |-> <<"F","r","a","n","c","e">>,
        official_name |-> <<"F","r","e","n","c","h"," ","R","e","p","u","b","l","i","c">>,
        alpha_2       |-> <<"F","R">>,
        alpha_3       |-> <<"F","R","A">>],
       [name          |-> <<"B","e","l","g","i","u","m">>,
        official_name |-> <<"K","i","n","g","d","o","m"," ","o","f"," ","B","e","l","g","i","u","m">>,
        alpha_2       |-> <<"B","E">>,
        alpha_3       |-> <<"B","E","L">>],
       [name          |-> <<"C","a","n","a","d","a">>,
        official_name |-> Null,
        alpha_2       |-> <<"C","A">>,
        alpha_3       |-> <<"C","A","N">> ] >>

\* the list country_terms built by is_valid_geocode_result, as a set
\* (it is only used for membership)
country_terms(ctry) ==
    (IF Truthy(ctry) THEN {Lower(Strip(ctry))} ELSE {})
    \cup UNION { {Lower(pycountry_countries[k].name)}
                 \cup (IF Truthy(pycountry_countries[k].official_name)
                       THEN {Lower(pycountry_countries[k].official_name)} ELSE {})
                 \cup (IF Truthy(pycountry_countries[k].alpha_2)
                       THEN {Lower(pycountry_countries[k].alpha_2)} ELSE {})
                 \cup (IF Truthy(pycountry_countries[k].alpha_3)
                       THEN {Lower(pycountry_countries[k].alpha_3)} ELSE {})
                 : k \in 1..Len(pycountry_countries) }

\* variant: the address is compared without strip()
is_valid_geocode_result_NoStrip(geocode_result, ctry) ==
    IF geocode_result = <<>> THEN FALSE
    ELSE LET formatted_address == Lower(geocode_result[1].formatted_address)
         IN  IF formatted_address = <<>> THEN FALSE
             ELSE IF formatted_address \in country_terms(ctry) THEN FALSE
             ELSE TRUE

\* is_valid_geocode_result(geocode_result, country): geocode_result is the
\* list returned by the Google client
is_valid_geocode_result(geocode_result, ctry) ==
    IF geocode_result = <<>> THEN FALSE
    ELSE LET formatted_address == Lower(Strip(geocode_result[1].formatted_address))
         IN  IF formatted_address = <<>> THEN FALSE
             ELSE IF formatted_address \in country_terms(ctry) THEN FALSE
             ELSE TRUE

-----------------------------------------------------------------------------
(* Tables and the CSV destination *)

InputCols == {"name", "city"}

\* the columns each runner adds to its copy of the input
OutCols(p) ==
    IF p = "google"
    THEN {"Lat", "Lng", "Address", "Maps_Link", "Locality_Filter"}
    ELSE {"Lat", "Lng", "Address", "OSM_ID", "OSM_Type"}

\* result_df = input_df.copy() followed by the `if col not in columns` blocks
AddColumns(df, p) ==
    [k \in 1..Len(df) |->
        [c \in (DOMAIN df[k]) \cup OutCols(p) |->
            IF c \in DOMAIN df[k] THEN df[k][c] ELSE Null]]

\* the strings read_csv turns into NaN (some of its default na_values)
NaStrings == { <<>>, <<"N","A">>, <<"N","a","N">>, <<"n","a","n">>,
               <<"n","u","l","l">> }

\* one cell as to_csv writes it: a missing value becomes the empty field
CsvCell(v) == IF v = Null THEN <<>> ELSE v

\* one field as read_csv reads it
ParseCell(t) == IF t \in NaStrings THEN Null ELSE t

NoFile == [exists |-> FALSE, cols |-> {}, rows |-> <<>>]

\* result_df.to_csv(output_file, index=False): whole-table overwrite
to_csv(df, cols) ==
    [exists |-> TRUE,
     cols   |-> cols,
     rows   |-> [k \in 1..Len(df) |-> [c \in cols |-> CsvCell(df[k][c])]]]

\* pd.read_csv(output_file)
read_csv(file) ==
    [k \in 1..Len(file.rows) |-> [c \in file.cols |-> ParseCell(file.rows[k][c])]]

\* result_df[name_column] == row[name_column], for one row: NaN equals nothing
NameEq(a, b) == a # Null /\ b # Null /\ a = b

\* the assignments result_df.at[match_idx, ...] = row[...] of the resume loop
CopyExisting(target, row, p) ==
    IF p = "google"
    THEN [target EXCEPT !["Lat"] = row["Lat"], !["Lng"] = row["Lng"],
                        !["Address"] = row["Address"]]
    ELSE [target EXCEPT !["Lat"] = row["Lat"], !["Lng"] = row["Lng"],
                        !["Address"] = row["Address"],
                        !["OSM_ID"] = IF "OSM_ID" \in DOMAIN row
                                      THEN row["OSM_ID"] ELSE @,
                        !["OSM_Type"] = IF "OSM_Type" \in DOMAIN row
                                        THEN row["OSM_Type"] ELSE @]

\* variant: a prior row counts as resolved as soon as it has a Lat
RECURSIVE MapExisting_LatOnly(_, _, _, _)
MapExisting_LatOnly(st, existing, k, p) ==
    IF k > Len(existing) THEN st
    ELSE LET row == existing[k]
             matching == {m \in 1..Len(st.df) : NameEq(st.df[m]["name"], row["name"])}
         IN  IF notna(row["Lat"])
             THEN MapExisting_LatOnly(
                    [df |-> [m \in 1..Len(st.df) |->
                                IF m \in matching
                                THEN CopyExisting(st.df[m], row, p)
                                ELSE st.df[m]],
                     processed |-> st.processed \cup matching],
                    existing, k + 1, p)
             ELSE MapExisting_LatOnly(st, existing, k + 1, p)

\* variant: a current row keeps the first prior row of its name
RECURSIVE MapExisting_FirstWins(_, _, _, _)
MapExisting_FirstWins(st, existing, k, p) ==
    IF k > Len(existing) THEN st
    ELSE LET row == existing[k]
             matching == {m \in 1..Len(st.df) : NameEq(st.df[m]["name"], row["name"])}
         IN  IF notna(row["Lat"]) /\ notna(row["Lng"])
             THEN MapExisting_FirstWins(
                    [df |-> [m \in 1..Len(st.df) |->
                                IF m \in matching \ st.processed
                                THEN CopyExisting(st.df[m], row, p)
                                ELSE st.df[m]],
                     processed |-> st.processed \cup matching],
                    existing, k + 1, p)
             ELSE MapExisting_FirstWins(st, existing, k + 1, p)

\* for idx, row in existing_results.iterrows(): ... ; k is the prior row,
\* st = [df, processed] the table and processed_indices so far
RECURSIVE MapExisting(_, _, _, _)
MapExisting(st, existing, k, p) ==
    IF k > Len(existing) THEN st
    ELSE LET row == existing[k]
             matching == {m \in 1..Len(st.df) : NameEq(st.df[m]["name"], row["name"])}
         IN  IF notna(row["Lat"]) /\ notna(row["Lng"])
             THEN MapExisting(
                    [df |-> [m \in 1..Len(st.df) |->
                                IF m \in matching
                                THEN CopyExisting(st.df[m], row, p)
                                ELSE st.df[m]],
                     processed |-> st.processed \cup matching],
                    existing, k + 1, p)
             ELSE MapExisting(st, existing, k + 1, p)

required_columns == {"Lat", "Lng", "Address", "name"}

\* pd.read_csv raises on a file without a header line (EmptyDataError)
ReadRaises(file) == file.cols = {}

\* variant: every row that the prior file holds is taken as processed,
\* whatever the columns of the file
LoadExisting_ByPosition(df, file, p) ==
    IF file.exists
    THEN [df |-> df,
          processed |-> {m \in 1..Len(df) : m <= Len(file.rows)}]
    ELSE [df |-> df, processed |-> {}]

\* the block `if os.path.exists(output_file): ...`; the except clause
\* leaves processed_indices empty
LoadExisting(df, file, p) ==
    IF ~file.exists THEN [df |-> df, processed |-> {}]
    ELSE IF ReadRaises(file) THEN [df |-> df, processed |-> {}]
    ELSE IF required_columns \subseteq file.cols
    THEN MapExisting([df |-> df, processed |-> {}], read_csv(file), 1, p)
    ELSE [df |-> df, processed |-> {}]

\* [idx for idx in result_df.index if idx not in processed_indices]
RECURSIVE IndexList(_, _, _)
IndexList(k, n, processed) ==
    IF k > n THEN <<>>
    ELSE (IF k \in processed THEN <<>> ELSE <<k>>) \o IndexList(k + 1, n, processed)

-----------------------------------------------------------------------------
(* Query construction *)

Sep == <<",", " ">>

\* variant: the city segment is added whenever the cell is not NaN
BuildQuery_EmptyCityKept(row, ctry) ==
    LET location_name == IF notna(row["name"]) THEN row["name"] ELSE <<>>
        q == IF "city" \in DOMAIN row /\ notna(row["city"])
             THEN location_name \o Sep \o row["city"]
             ELSE location_name
    IN  IF Truthy(ctry) THEN q \o Sep \o ctry ELSE q

\* location_name, city_name and query of one row
BuildQuery(row, ctry) ==
    LET location_name == IF notna(row["name"]) THEN row["name"] ELSE <<>>
        city_name == IF "city" \in DOMAIN row /\ notna(row["city"])
                     THEN row["city"] ELSE <<>>
        q == IF city_name # <<>> THEN location_name \o Sep \o city_name
             ELSE location_name
    IN  IF Truthy(ctry) THEN q \o Sep \o ctry ELSE q

-----------------------------------------------------------------------------------------------------------------------------------------------------
(* The providers: deterministic stubs of the two external services.  The   *)
(* answer depends on the query text only (and, for Google, on whether the  *)
(* locality component is sent): "s" and "t" are station names, "x" a city, *)
(* and a query with an "F" names the country.                              *)

Addr12RueDeLaPaix ==
    <<"1","2"," ","R","u","e"," ","d","e"," ","l","a"," ","P","a","i","x",","," ",
      "P","a","r","i","s",","," ","F","r","a","n","c","e">>
AddrGareDuNord ==
    <<"G","a","r","e"," ","d","u"," ","N","o","r","d",","," ","P","a","r","i","s">>
AddrCountryOnly == <<" ","F","r","a","n","c","e"," ">>
AddrBlank == <<" ">>

\* gmaps.geocode(query) / gmaps.geocode(query, components={"locality": ...}):
\* the list of results; locality is Null when no component is sent
gmaps_geocode(q, locality) ==
    CASE Has(q, "s") /\ Has(q, "x") ->
            IF locality # Null THEN <<>>
            ELSE << [formatted_address |-> AddrGareDuNord,
                     lat |-> <<"4","8",".","8","8">>, lng |-> <<"2",".","3","5">>] >>
      [] Has(q, "s") ->
            << [formatted_address |-> Addr12RueDeLaPaix,
                lat |-> <<"4","8",".","8","5">>, lng |-> <<"2",".","3","5">>],
               [formatted_address |-> AddrGareDuNord,
                lat |-> <<"4","8",".","8","8">>, lng |-> <<"2",".","3","5">>] >>
      [] Has(q, "t") /\ Has(q, "F") ->
            << [formatted_address |-> AddrCountryOnly,
                lat |-> <<"4","6",".","2">>, lng |-> <<"2",".","2">>] >>
      [] Has(q, "t") ->
            << [formatted_address |-> AddrBlank,
                lat |-> <<"4","6",".","2">>, lng |-> <<"2",".","2">>] >>
      [] Has(q, "x") ->
            << [formatted_address |-> AddrGareDuNord,
                lat |-> <<"4","8",".","8","8">>, lng |-> <<"2",".","3","5">>] >>
      [] OTHER -> <<>>

\* pycountry.countries.search_fuzzy(country)[0].alpha_2.lower(), Null when
\* the lookup raises (the bare except) or country is not given
country_code(ctry) ==
    IF ~Truthy(ctry) THEN Null
    ELSE LET hits == {k \in 1..Len(pycountry_countries) :
                        Lower(pycountry_countries[k].name) = Lower(ctry)}
         IN  IF hits = {} THEN Null
             ELSE Lower(pycountry_countries[CHOOSE k \in hits : TRUE].alpha_2)

\* requests.get(nominatim_endpoint, params, headers): status code and the
\* decoded JSON list (limit = 1)
requests_get(q, countrycodes) ==
    CASE Has(q, "s") /\ Has(q, "x") -> [status_code |-> 200, results |-> <<>>]
      [] Has(q, "s") ->
            [status_code |-> 200,
             results |-> << [lat |-> <<"4","8",".","8","5","0">>,
                             lon |-> <<"2",".","3","5","0">>,
                             display_name |-> Addr12RueDeLaPaix,
                             osm_id |-> <<"7">>,
                             osm_type |-> <<"n","o","d","e">>] >>]
      [] Has(q, "t") /\ Has(q, "F") ->
            [status_code |-> 200,
             results |-> << [lat |-> <<"4","6",".","2">>,
                             lon |-> <<"2",".","2">>,
                             display_name |-> AddrCountryOnly,
                             osm_id |-> <<"9">>,
                             osm_type |-> <<"r","e","l","a","t","i","o","n">>] >>]
      [] Has(q, "t") -> [status_code |-> 503, results |-> <<>>]
      [] Has(q, "x") /\ Has(q, "F") ->
            [status_code |-> 200,
             results |-> << [lat |-> <<"4","8",".","8","8">>,
                             lon |-> <<"2",".","3","5">>,
                             display_name |-> AddrGareDuNord,
                             osm_id |-> Null,
                             osm_type |-> Null] >>]
      [] Has(q, "x") ->
            [status_code |-> 200,
             results |-> << [lat |-> <<"4","6",".","2">>,
                             lon |-> <<"2",".","2">>,
                             display_name |-> <<>>,
                             osm_id |-> <<"9">>,
                             osm_type |-> <<"r","e","l","a","t","i","o","n">>] >>]
      [] OTHER -> [status_code |-> 200, results |-> <<>>]

\* float(text) of a decimal with a fractional part, as the canonical text
\* of the value: trailing zeros of the fraction do not count
RECURSIVE float(_)
float(text) ==
    IF Has(text, ".") /\ Len(text) > 1 /\ text[Len(text)] = "0"
       /\ text[Len(text) - 1] # "."
    THEN float(SubSeq(text, 1, Len(text) - 1))
    ELSE text

MapsLinkPrefix ==
    <<"h","t","t","p","s",":","/","/","w","w","w",".","g","o","o","g","l","e",
      ".","c","o","m","/","m","a","p","s","?","q","=">>

\* str(bool(b))
BoolText(b) == IF b THEN <<"T","r","u","e">> ELSE <<"F","a","l","s","e">>

NoResponse == [kind |-> "none"]

-----------------------------------------------------------------------------
(* Pauses, in tenths of a second, and the checkpoint period *)

\* time.sleep(0.3) after a row of the Google runner
GooglePause == 3
\* time.sleep(1.1) after a row of the Nominatim runner
NominatimPause == 11
\* time.sleep(2) in the except block of both runners
ErrorCooldown == 20
\* (i + 1) % 10 == 0
CheckpointEvery == 10

\* variant: the Nominatim runner pauses as the Google runner does
NormalPause_SameForBoth(p) == GooglePause

NormalPause(p) == IF p = "google" THEN GooglePause ELSE NominatimPause

-----------------------------------------------------------------------------
(* The runner *)

params == <<provider, country, search_without_locality_filter, input_df>>

\* index label of the row of the current iteration
idx == rows_to_process[i + 1]

\* the columns of result_df: those of the input table and the added ones
Cols ==
    (IF input_df = <<>> THEN InputCols ELSE DOMAIN input_df[1])
    \cup OutCols(provider)

\* events of the log: <<kind, a, b>>
CallEvent(row)      == <<"call", row, 0>>
ErrorEvent(row)     == <<"error", row, 0>>
SaveEvent(n, where) == <<"save", n, where>>
SleepEvent(d)       == <<"sleep", d, 0>>
ProgressEvent(c, n) == <<"progress", c, n>>
Periodic == 0
OnError  == 1
Final    == 2

\* from result_df = input_df.copy() to the computation of rows_to_process
Setup ==
    /\ pc = "start"
    /\ LET st == LoadExisting(AddColumns(input_df, provider), output_file, provider)
       IN  /\ result_df' = st.df
           /\ processed_indices' = st.processed
           /\ rows_to_process' = IndexList(1, Len(input_df), st.processed)
    /\ i' = 0
    /\ pc' = "loop"
    /\ UNCHANGED <<params, output_file, query, response, run, failures, log,
                   history, validatorVars, appVars>>

\* the for loop is exhausted
LoopExit ==
    /\ pc = "loop"
    /\ i = Len(rows_to_process)
    /\ pc' = "final"
    /\ UNCHANGED <<params, output_file, result_df, processed_indices,
                   rows_to_process, i, query, response, run, failures, log,
                   history, validatorVars, appVars>>

\* the request of one row: the value the provider call returns
provider_call(row, q) ==
    IF provider = "google"
    THEN [kind |-> "google",
          list |-> gmaps_geocode(q,
                     IF search_without_locality_filter THEN Null
                     ELSE IF notna(row["name"]) THEN row["name"] ELSE <<>>)]
    ELSE [kind |-> "nominatim",
          http |-> requests_get(q, country_code(country))]

\* head of the for loop with a row left: the query of the row is built,
\* the provider is called and the call returns
ProviderReturns ==
    /\ pc = "loop"
    /\ i < Len(rows_to_process)
    /\ query' = BuildQuery(result_df[idx], country)
    /\ response' = provider_call(result_df[idx], query')
    /\ log' = Append(log, CallEvent(idx))
    /\ pc' = "write"
    /\ UNCHANGED <<params, output_file, result_df, processed_indices,
                   rows_to_process, i, run, failures, history, validatorVars, appVars>>

\* variant: the exception is not caught and ends the run
ProviderRaises_Uncaught ==
    /\ pc = "loop"
    /\ i < Len(rows_to_process)
    /\ failures < MaxFailures
    /\ failures' = failures + 1
    /\ query' = BuildQuery(result_df[idx], country)
    /\ log' = log \o <<CallEvent(idx), ErrorEvent(idx)>>
    /\ pc' = "crashed"
    /\ UNCHANGED <<params, output_file, result_df, processed_indices,
                   rows_to_process, i, response, run, history, validatorVars, appVars>>

\* head of the for loop with a row left: the query of the row is built,
\* the provider is called and the call raises (transport, authentication,
\* quota)
ProviderRaises ==
    /\ pc = "loop"
    /\ i < Len(rows_to_process)
    /\ failures < MaxFailures
    /\ failures' = failures + 1
    /\ query' = BuildQuery(result_df[idx], country)
    /\ log' = log \o <<CallEvent(idx), ErrorEvent(idx)>>
    /\ pc' = "exc_save"
    /\ UNCHANGED <<params, output_file, result_df, processed_indices,
                   rows_to_process, i, response, run, history, validatorVars, appVars>>

\* Google runner: validation and the writes into result_df of one row
GoogleRow(row, geocode_result, ctry, used_locality_filter) ==
    LET filled ==
          IF is_valid_geocode_result(geocode_result, ctry)
          THEN [row EXCEPT
                  !["Lat"] = geocode_result[1].lat,
                  !["Lng"] = geocode_result[1].lng,
                  !["Address"] = geocode_result[1].formatted_address,
                  !["Maps_Link"] = MapsLinkPrefix \o geocode_result[1].lat
                                   \o <<",">> \o geocode_result[1].lng]
          ELSE row
    IN  [filled EXCEPT !["Locality_Filter"] = BoolText(used_locality_filter)]

\* Nominatim runner: the writes into result_df of one row
NominatimRow(row, http) ==
    IF http.status_code = 200 /\ http.results # <<>>
    THEN LET best_match == http.results[1]
         IN  [row EXCEPT
                !["Lat"] = float(best_match.lat),
                !["Lng"] = float(best_match.lon),
                !["Address"] = best_match.display_name,
                !["OSM_ID"] = best_match.osm_id,
                !["OSM_Type"] = best_match.osm_type]
    ELSE row

\* the row after the statements between the provider call and the checkpoint
RowOutcome(row, resp) ==
    IF provider = "google"
    THEN GoogleRow(row, resp.list, country, ~search_without_locality_filter)
    ELSE NominatimRow(row, resp.http)

\* variant: an empty result set is handled by the except block
WriteOutcome_EmptyIsError ==
    /\ pc = "write"
    /\ result_df' = [result_df EXCEPT ![idx] = RowOutcome(@, response)]
    /\ pc' = IF \/ response.kind = "google" /\ response.list = <<>>
                \/ response.kind = "nominatim" /\ response.http.results = <<>>
             THEN "exc_save" ELSE "ckpt"
    /\ UNCHANGED <<params, output_file, processed_indices, rows_to_process, i,
                   query, response, run, failures, log, history, validatorVars, appVars>>

\* the outcome of the row is written to the in-memory table
WriteOutcome ==
    /\ pc = "write"
    /\ result_df' = [result_df EXCEPT ![idx] = RowOutcome(@, response)]
    /\ pc' = "ckpt"
    /\ UNCHANGED <<params, output_file, processed_indices, rows_to_process, i,
                   query, response, run, failures, log, history, validatorVars, appVars>>

\* variant: the last row gets no checkpoint of its own
CheckpointDue_OnlyPeriodic(k, n) == (k + 1) % CheckpointEvery = 0

\* variant: the period is one row longer
CheckpointDue_LongerPeriod(k, n) ==
    (k + 1) % (CheckpointEvery + 1) = 0 \/ k = n - 1

\* if (i + 1) % 10 == 0 or i == len(rows_to_process) - 1
CheckpointDue(k, n) == (k + 1) % CheckpointEvery = 0 \/ k = n - 1

\* "Save progressively"
Checkpoint ==
    /\ pc = "ckpt"
    /\ IF CheckpointDue(i, Len(rows_to_process))
       THEN /\ output_file' = to_csv(result_df, Cols)
            /\ log' = Append(log, SaveEvent(i + 1, Periodic))
       ELSE UNCHANGED <<output_file, log>>
    /\ pc' = "sleep"
    /\ UNCHANGED <<params, result_df, processed_indices, rows_to_process, i,
                   query, response, run, failures, history, validatorVars, appVars>>

\* "Pause to respect API limits"
Pause ==
    /\ pc = "sleep"
    /\ log' = Append(log, SleepEvent(NormalPause(provider)))
    /\ pc' = "progress"
    /\ UNCHANGED <<params, output_file, result_df, processed_indices,
                   rows_to_process, i, query, response, run, failures, history,
                   validatorVars, appVars>>

\* progress_callback(i + 1, len(rows_to_process)); end of the iteration
Progress ==
    /\ pc = "progress"
    /\ log' = Append(log, ProgressEvent(i + 1, Len(rows_to_process)))
    /\ i' = i + 1
    /\ pc' = "loop"
    /\ UNCHANGED <<params, output_file, result_df, processed_indices,
                   rows_to_process, query, response, run, failures, history,
                   validatorVars, appVars>>

\* variant: the except block does not save
ErrorSave_Skipped ==
    /\ pc = "exc_save"
    /\ pc' = "exc_sleep"
    /\ UNCHANGED <<params, output_file, result_df, processed_indices,
                   rows_to_process, i, query, response, run, failures, log,
                   history, validatorVars, appVars>>

\* except block: "Save in case of error"
ErrorSave ==
    /\ pc = "exc_save"
    /\ output_file' = to_csv(result_df, Cols)
    /\ log' = Append(log, SaveEvent(i + 1, OnError))
    /\ pc' = "exc_sleep"
    /\ UNCHANGED <<params, result_df, processed_indices, rows_to_process, i,
                   query, response, run, failures, history, validatorVars, appVars>>

\* except block: "Wait a bit longer in case of error"
ErrorPause ==
    /\ pc = "exc_sleep"
    /\ log' = Append(log, SleepEvent(ErrorCooldown))
    /\ pc' = "exc_progress"
    /\ UNCHANGED <<params, output_file, result_df, processed_indices,
                   rows_to_process, i, query, response, run, failures, history,
                   validatorVars, appVars>>

\* variant: the loop is left after the except block
ErrorProgress_LeavesLoop ==
    /\ pc = "exc_progress"
    /\ log' = Append(log, ProgressEvent(i + 1, Len(rows_to_process)))
    /\ i' = i + 1
    /\ pc' = "final"
    /\ UNCHANGED <<params, output_file, result_df, processed_indices,
                   rows_to_process, query, response, run, failures, history,
                   validatorVars, appVars>>

\* variant: a failed row is requested again
ErrorProgress_Retry ==
    /\ pc = "exc_progress"
    /\ log' = Append(log, ProgressEvent(i + 1, Len(rows_to_process)))
    /\ pc' = "loop"
    /\ UNCHANGED <<params, output_file, result_df, processed_indices,
                   rows_to_process, i, query, response, run, failures, history,
                   validatorVars, appVars>>

\* variant: no callback after a failed row
ErrorProgress_NoCallback ==
    /\ pc = "exc_progress"
    /\ i' = i + 1
    /\ pc' = "loop"
    /\ UNCHANGED <<params, output_file, result_df, processed_indices,
                   rows_to_process, query, response, run, failures, log,
                   history, validatorVars, appVars>>

\* except block: "Update progress bar on error as well"
ErrorProgress ==
    /\ pc = "exc_progress"
    /\ log' = Append(log, ProgressEvent(i + 1, Len(rows_to_process)))
    /\ i' = i + 1
    /\ pc' = "loop"
    /\ UNCHANGED <<params, output_file, result_df, processed_indices,
                   rows_to_process, query, response, run, failures, history,
                   validatorVars, appVars>>

\* variant: the runner returns without the final save
FinalSave_Skipped ==
    /\ pc = "final"
    /\ pc' = "done"
    /\ UNCHANGED <<params, output_file, result_df, processed_indices,
                   rows_to_process, i, query, response, run, failures, log,
                   history, validatorVars, appVars>>

\* "Save final result" and return result_df
FinalSave ==
    /\ pc = "final"
    /\ output_file' = to_csv(result_df, Cols)
    /\ log' = Append(log, SaveEvent(Len(rows_to_process), Final))
    /\ pc' = "done"
    /\ UNCHANGED <<params, result_df, processed_indices, rows_to_process, i,
                   query, response, run, failures, history, validatorVars, appVars>>

\* the caller invokes the runner again with the same input table and the
\* same destination (explored for the small tables)
StartRun ==
    /\ pc = "done"
    /\ run = "first"
    /\ Len(input_df) <= MaxRows
    /\ run' = "second"
    /\ history' = [output |-> output_file, result |-> result_df, log |-> log]
    /\ result_df' = <<>>
    /\ processed_indices' = {}
    /\ rows_to_process' = <<>>
    /\ i' = 0
    /\ query' = Null
    /\ response' = NoResponse
    /\ failures' = 0
    /\ log' = <<>>
    /\ pc' = "start"
    /\ UNCHANGED <<params, output_file, validatorVars, appVars>>

-----------------------------------------------------------------------------
(* The report: find_potential_errors and display_summary *)

\* find_potential_errors(df, name_column, threshold=5)
DefaultThreshold == 5

\* potential_errors before any group is appended
NoErrors == [duplicate_coordinates |-> {}, duplicate_addresses |-> {}]

\* valid_df['Lat'].astype(str) + ',' + valid_df['Lng'].astype(str)
coord_key(row) == row["Lat"] \o <<",">> \o row["Lng"]

\* df[(df['Lat'].notna()) & (df['Lng'].notna())]
valid_df(df) == SelectSeq(df, LAMBDA row : notna(row["Lat"]) /\ notna(row["Lng"]))

\* rows.drop_duplicates(subset=[name_column]): the first row of each name
RECURSIVE drop_duplicates(_, _)
drop_duplicates(rows, seen) ==
    IF rows = <<>> THEN <<>>
    ELSE IF Head(rows)["name"] \in seen
         THEN drop_duplicates(Tail(rows), seen)
         ELSE <<Head(rows)>>
              \o drop_duplicates(Tail(rows), seen \cup {Head(rows)["name"]})

\* rows.head(n)
head(rows, n) == SubSeq(rows, 1, IF Len(rows) < n THEN Len(rows) ELSE n)

\* variant: the sample is taken without drop_duplicates
sample_data_NoDedup(rows) ==
    LET first == head(rows, 10)
    IN  [k \in 1..Len(first) |->
            [c \in {"name", "Lat", "Lng", "Address"} |-> first[k][c]]]

\* [[name_column, 'Lat', 'Lng', 'Address']].head(10).to_dict('records')
sample_data(rows) ==
    LET first == head(drop_duplicates(rows, {}), 10)
    IN  [k \in 1..Len(first) |->
            [c \in {"name", "Lat", "Lng", "Address"} |-> first[k][c]]]

\* variant: a group is measured by its rows, not by its distinct names
find_potential_errors_CountsRows(df, threshold) ==
    LET valid == valid_df(df)
        with_address == SelectSeq(valid, LAMBDA row : notna(row["Address"]))
    IN  [duplicate_coordinates |->
            { [coordinates |-> key,
               count |-> Len(SelectSeq(valid, LAMBDA row : coord_key(row) = key)),
               sample_data |->
                  sample_data(SelectSeq(valid, LAMBDA row : coord_key(row) = key))] :
              key \in { k \in { coord_key(valid[n]) : n \in 1..Len(valid) } :
                          Len(SelectSeq(valid, LAMBDA row : coord_key(row) = k))
                             >= threshold } },
         duplicate_addresses |->
            { [address |-> a,
               count |-> Len(SelectSeq(with_address, LAMBDA row : row["Address"] = a)),
               sample_data |->
                  sample_data(SelectSeq(with_address, LAMBDA row : row["Address"] = a))] :
              a \in { b \in { with_address[n]["Address"] : n \in 1..Len(with_address) } :
                        Len(SelectSeq(with_address, LAMBDA row : row["Address"] = b))
                           >= threshold } }]

\* find_potential_errors(df, name_column, threshold): the two lists of
\* groups, as sets (groupby yields one entry per key)
find_potential_errors(df, threshold) ==
    LET valid == valid_df(df)
        with_address == SelectSeq(valid, LAMBDA row : notna(row["Address"]))
        unique_names(rows) == { rows[n]["name"] : n \in 1..Len(rows) }
    IN  [duplicate_coordinates |->
            { [coordinates |-> key,
               count |-> Cardinality(unique_names(
                            SelectSeq(valid, LAMBDA row : coord_key(row) = key))),
               sample_data |->
                  sample_data(SelectSeq(valid, LAMBDA row : coord_key(row) = key))] :
              key \in { k \in { coord_key(valid[n]) : n \in 1..Len(valid) } :
                          Cardinality(unique_names(
                             SelectSeq(valid, LAMBDA row : coord_key(row) = k)))
                             >= threshold } },
         duplicate_addresses |->
            { [address |-> a,
               count |-> Cardinality(unique_names(
                            SelectSeq(with_address, LAMBDA row : row["Address"] = a))),
               sample_data |->
                  sample_data(SelectSeq(with_address, LAMBDA row : row["Address"] = a))] :
              a \in { b \in { with_address[n]["Address"] : n \in 1..Len(with_address) } :
                        Cardinality(unique_names(
                           SelectSeq(with_address, LAMBDA row : row["Address"] = b)))
                           >= threshold } }]

RECURSIVE GCD(_, _)
GCD(a, b) == IF b = 0 THEN a ELSE GCD(b, a % b)

\* a number as a fraction in lowest terms (the quotient of the code is a
\* float; it is held exactly here)
Fraction(a, b) ==
    [num |-> a \div GCD(a, b), den |-> b \div GCD(a, b)]

\* variant: the share, not the percentage
success_rate_Share(locations_with_coordinates, total_locations) ==
    IF total_locations > 0
    THEN Fraction(locations_with_coordinates, total_locations)
    ELSE Fraction(0, 1)

\* (locations_with_coordinates / total_locations) * 100 if total_locations > 0 else 0
success_rate(locations_with_coordinates, total_locations) ==
    IF total_locations > 0
    THEN Fraction(locations_with_coordinates * 100, total_locations)
    ELSE Fraction(0, 1)

\* the loop of display_summary over updated_df: the geocoding columns of a
\* row are set to None when its address is empty or equals country_term
NormalizeRow(row, ctry) ==
    LET country_term == Strip(Lower(IF Truthy(ctry) THEN ctry ELSE <<>>))
        addr == IF notna(row["Address"]) THEN Lower(Strip(row["Address"])) ELSE <<>>
    IN  IF addr = <<>> \/ addr = country_term
        THEN [c \in DOMAIN row |->
                IF c \in {"Lat", "Lng", "Address", "Maps_Link"} THEN Null
                ELSE row[c]]
        ELSE row

\* display_summary(result_df, country, name_column): summary and updated_df
display_summary(df, ctry) ==
    LET updated == [k \in 1..Len(df) |-> NormalizeRow(df[k], ctry)]
        total_locations == Len(updated)
        locations_with_coordinates ==
            Cardinality({k \in 1..Len(updated) : notna(updated[k]["Lat"])})
    IN  [summary |->
            [total_locations |-> total_locations,
             locations_with_coordinates |-> locations_with_coordinates,
             locations_without_coordinates |->
                total_locations - locations_with_coordinates,
             success_rate |-> success_rate(locations_with_coordinates, total_locations),
             clean_and_correct_results |->
                total_locations - locations_with_coordinates,
             potential_errors |-> find_potential_errors(updated, DefaultThreshold),
             sample_results |-> head(updated, 5)],
         updated_df |-> updated]

-----------------------------------------------------------------------------
(* Inputs *)

France == <<"F","r","a","n","c","e">>

RowKinds ==
    { [name |-> <<"s">>, city |-> Null], [name |-> <<"s">>, city |-> <<"x">>],
      [name |-> <<"t">>, city |-> Null], [name |-> Null, city |-> <<"x">>] }

SmallTables == UNION { [1..n -> RowKinds] : n \in 0..MaxRows }

\* a long table mixing the row kinds
LargeTable(n) ==
    [k \in 1..n |->
        CASE k % 3 = 1 -> [name |-> <<"s">>, city |-> Null]
          [] k % 3 = 2 -> [name |-> <<"t">>, city |-> Null]
          [] OTHER     -> [name |-> <<"s">>, city |-> <<"x">>]]

\* the long tables are run with a country
InputTables(ctry) ==
    SmallTables \cup (IF Truthy(ctry) THEN { LargeTable(n) : n \in LargeSizes }
                      ELSE {})

NoHistory == [output |-> NoFile, result |-> <<>>, log |-> <<>>]

NoSummary == [total_locations |-> 0]

\* the settings and the report while only a runner is exercised: the
\* checkbox of the sidebar is unticked and the threshold has its default
AppIdle ==
    /\ fallback_without_location_filter = FALSE
    /\ error_threshold = DefaultThreshold
    /\ potential_errors = NoErrors
    /\ summary = NoSummary
    /\ updated_df = <<>>
    /\ progress_callback = "returns"

Init ==
    /\ provider \in {"google", "nominatim"}
    /\ country \in {Null, France}
    /\ search_without_locality_filter \in
         (IF provider = "google" THEN BOOLEAN ELSE {FALSE})
    /\ input_df \in InputTables(country)
    /\ output_file = NoFile
    /\ result_df = <<>>
    /\ processed_indices = {}
    /\ rows_to_process = <<>>
    /\ i = 0
    /\ query = Null
    /\ response = NoResponse
    /\ pc = "start"
    /\ run = "first"
    /\ failures = 0
    /\ log = <<>>
    /\ history = NoHistory
    /\ v_pc = "idle"
    /\ v_address = Null
    /\ v_country = Null
    /\ v_result = FALSE
    /\ AppIdle

Next ==
    \/ Setup
    \/ LoopExit
    \/ ProviderReturns
    \/ ProviderRaises
    \/ WriteOutcome
    \/ Checkpoint
    \/ Pause
    \/ Progress
    \/ ErrorSave
    \/ ErrorPause
    \/ ErrorProgress
    \/ FinalSave
    \/ StartRun

Spec == Init /\ [][Next]_vars

\* the runner is sequential: a step that can be taken is taken
FairSpec == Spec /\ WF_vars(Next)

-----------------------------------------------------------------------------
(* Runs that find a destination left by an earlier invocation: a file of   *)
(* up to two rows with the columns the runner writes, a file that lacks a  *)
(* required column, or a file that cannot be read.                         *)

\* a row of a prior file: its name and what the earlier run left in it
PriorKinds ==
    { [name |-> <<"s">>, state |-> "full"],
      [name |-> <<"s">>, state |-> "other"],
      [name |-> <<"s">>, state |-> "none"],
      [name |-> <<"s">>, state |-> "noaddr"],
      [name |-> <<"s">>, state |-> "latonly"],
      [name |-> <<"t">>, state |-> "full"],
      [name |-> <<>>,    state |-> "full"] }

\* the fields of the row as to_csv wrote them (an empty field for NaN)
PriorRow(k, p) ==
    LET lat == CASE k.state = "none"  -> <<>>
                 [] k.state = "other" -> <<"5","0",".","1">>
                 [] OTHER             -> <<"4","8",".","8","5">>
        lng == CASE k.state \in {"none", "latonly"} -> <<>>
                 [] k.state = "other"               -> <<"4",".","2">>
                 [] OTHER                           -> <<"2",".","3","5">>
        address == CASE k.state \in {"none", "noaddr"} -> <<>>
                     [] k.state = "other"              -> AddrGareDuNord
                     [] OTHER                          -> Addr12RueDeLaPaix
        whole == k.state \in {"full", "other"}
    IN  [c \in InputCols \cup OutCols(p) |->
            CASE c = "name"            -> k.name
              [] c = "city"            -> <<>>
              [] c = "Lat"             -> lat
              [] c = "Lng"             -> lng
              [] c = "Address"         -> address
              [] c = "Maps_Link"       -> IF whole
                                          THEN MapsLinkPrefix \o lat \o <<",">> \o lng
                                          ELSE <<>>
              [] c = "Locality_Filter" -> BoolText(TRUE)
              [] c = "OSM_ID"          -> IF whole THEN <<"7">> ELSE <<>>
              [] c = "OSM_Type"        -> IF whole THEN <<"n","o","d","e">> ELSE <<>>]

PriorSizes == {0, 1, 2}


\* the file with the rows of the kinds f
FileOf(f, p) ==
    [exists |-> TRUE,
     cols   |-> InputCols \cup OutCols(p),
     rows   |-> [k \in DOMAIN f |-> PriorRow(f[k], p)]]

WellFormedFiles(p) ==
    { FileOf(f, p) : f \in UNION { [1..n -> PriorKinds] : n \in PriorSizes } }

\* the file without one of its columns
DropColumn(file, c) ==
    [exists |-> TRUE,
     cols   |-> file.cols \ {c},
     rows   |-> [k \in 1..Len(file.rows) |->
                   [d \in file.cols \ {c} |-> file.rows[k][d]]]]

\* a file of zero bytes
EmptyFile == [exists |-> TRUE, cols |-> {}, rows |-> <<>>]

\* files whose rows are all resolved, without one of the required columns
MalformedFiles(p) ==
    { DropColumn(FileOf(f, p), c) :
        f \in { << [name |-> <<"s">>, state |-> "full"] >>,
                << [name |-> <<"s">>, state |-> "full"],
                   [name |-> <<"t">>, state |-> "full"] >> },
        c \in required_columns }

PriorFiles(p) ==
    {NoFile, EmptyFile} \cup WellFormedFiles(p) \cup MalformedFiles(p)

\* the run that finds a prior file is a later invocation: history holds
\* the destination as the earlier invocation left it
ResumeInit ==
    /\ provider \in {"google", "nominatim"}
    /\ country \in {Null, France}
    /\ search_without_locality_filter = FALSE
    /\ input_df \in SmallTables
    /\ output_file \in PriorFiles(provider)
    /\ result_df = <<>>
    /\ processed_indices = {}
    /\ rows_to_process = <<>>
    /\ i = 0
    /\ query = Null
    /\ response = NoResponse
    /\ pc = "start"
    /\ run = IF output_file = NoFile THEN "first" ELSE "second"
    /\ failures = 0
    /\ log = <<>>
    /\ history = [output |-> output_file, result |-> <<>>, log |-> <<>>]
    /\ v_pc = "idle"
    /\ v_address = Null
    /\ v_country = Null
    /\ v_result = FALSE
    /\ AppIdle

ResumeSpec == ResumeInit /\ [][Next]_vars

-----------------------------------------------------------------------------
(* Runs over one-row tables whose cells and country cover the branches of  *)
(* the query construction: a missing or empty name, a table without city   *)
(* column, a missing or empty city, and no, an empty or a blank country    *)
(* (the text input of app.py gives "" when nothing is typed).              *)

QueryRows ==
    { [name |-> n] : n \in {Null, <<>>, <<"s">>, <<"S"," ","t">>} }
    \cup [name : {Null, <<>>, <<"s">>, <<"S"," ","t">>},
          city : {Null, <<>>, <<"x">>}]

QueryCountries == {Null, <<>>, France, <<" ">>}

QueryInit ==
    /\ provider \in {"google", "nominatim"}
    /\ country \in QueryCountries
    /\ search_without_locality_filter \in
         (IF provider = "google" THEN BOOLEAN ELSE {FALSE})
    /\ input_df \in { <<r>> : r \in QueryRows }
    /\ output_file = NoFile
    /\ result_df = <<>>
    /\ processed_indices = {}
    /\ rows_to_process = <<>>
    /\ i = 0
    /\ query = Null
    /\ response = NoResponse
    /\ pc = "start"
    /\ run = "first"
    /\ failures = 0
    /\ log = <<>>
    /\ history = NoHistory
    /\ v_pc = "idle"
    /\ v_address = Null
    /\ v_country = Null
    /\ v_result = FALSE
    /\ AppIdle

QuerySpec == QueryInit /\ [][Next]_vars

-----------------------------------------------------------------------------
(* Runs of the Google runner under each setting of the checkbox "If no     *)
(* result, retry search without location filter".  The runner has no       *)
(* parameter for it: its body reads search_without_locality_filter only.   *)

FallbackInit ==
    /\ provider = "google"
    /\ country \in {Null, France}
    /\ search_without_locality_filter \in BOOLEAN
    /\ input_df \in SmallTables
    /\ output_file = NoFile
    /\ result_df = <<>>
    /\ processed_indices = {}
    /\ rows_to_process = <<>>
    /\ i = 0
    /\ query = Null
    /\ response = NoResponse
    /\ pc = "start"
    /\ run = "first"
    /\ failures = 0
    /\ log = <<>>
    /\ history = NoHistory
    /\ v_pc = "idle"
    /\ v_address = Null
    /\ v_country = Null
    /\ v_result = FALSE
    /\ fallback_without_location_filter \in BOOLEAN
    /\ error_threshold = DefaultThreshold
    /\ potential_errors = NoErrors
    /\ summary = NoSummary
    /\ updated_df = <<>>
    /\ progress_callback = "returns"

FallbackSpec == FallbackInit /\ [][Next]_vars

-----------------------------------------------------------------------------
(* Runs with a progress callback that may raise.  The callback is called   *)
(* inside the try block of the row, and once more inside its except block. *)

\* progress_callback(i + 1, len(rows_to_process)) of the try block raises:
\* control goes to the except block of the same iteration
ProgressRaises ==
    /\ pc = "progress"
    /\ progress_callback = "faulty"
    /\ log' = Append(log, ProgressEvent(i + 1, Len(rows_to_process)))
    /\ pc' = "exc_save"
    /\ UNCHANGED <<params, output_file, result_df, processed_indices,
                   rows_to_process, i, query, response, run, failures, history,
                   validatorVars, appVars>>

\* progress_callback(i + 1, len(rows_to_process)) of the except block
\* raises: nothing catches the exception and the runner is left without the
\* final save
ErrorProgressRaises ==
    /\ pc = "exc_progress"
    /\ progress_callback = "faulty"
    /\ log' = Append(log, ProgressEvent(i + 1, Len(rows_to_process)))
    /\ pc' = "crashed"
    /\ UNCHANGED <<params, output_file, result_df, processed_indices,
                   rows_to_process, i, query, response, run, failures, history,
                   validatorVars, appVars>>

CallbackInit ==
    /\ provider \in {"google", "nominatim"}
    /\ country \in {Null, France}
    /\ search_without_locality_filter = FALSE
    /\ input_df \in SmallTables
    /\ output_file = NoFile
    /\ result_df = <<>>
    /\ processed_indices = {}
    /\ rows_to_process = <<>>
    /\ i = 0
    /\ query = Null
    /\ response = NoResponse
    /\ pc = "start"
    /\ run = "first"
    /\ failures = 0
    /\ log = <<>>
    /\ history = NoHistory
    /\ v_pc = "idle"
    /\ v_address = Null
    /\ v_country = Null
    /\ v_result = FALSE
    /\ fallback_without_location_filter = FALSE
    /\ error_threshold = DefaultThreshold
    /\ potential_errors = NoErrors
    /\ summary = NoSummary
    /\ updated_df = <<>>
    /\ progress_callback \in {"returns", "faulty"}

CallbackNext ==
    \/ Next
    \/ ProgressRaises
    \/ ErrorProgressRaises

CallbackSpec == CallbackInit /\ [][CallbackNext]_vars

-----------------------------------------------------------------------------
(* The report functions applied to result tables: up to MaxNames rows of   *)
(* distinct names resolved to one place, rows that repeat the first name,  *)
(* and one further row of another kind.                                    *)

Letters == <<"a", "b", "c", "d", "e", "f", "g", "h">>

\* a row of a result table of the Google runner
ResultRow(name, lat, lng, address) ==
    [name |-> name, city |-> Null, Lat |-> lat, Lng |-> lng, Address |-> address,
     Maps_Link |-> IF lat = Null THEN Null
                   ELSE MapsLinkPrefix \o lat \o <<",">> \o lng,
     Locality_Filter |-> BoolText(TRUE)]

\* a row resolved to the place shared by the group
SharedPlace(name) ==
    ResultRow(name, <<"4","8",".","8","5">>, <<"2",".","3","5">>, Addr12RueDeLaPaix)

ExtraRows ==
    { <<>>,
      \* a row left unresolved
      << ResultRow(<<"u">>, Null, Null, Null) >>,
      \* the same address at other coordinates
      << ResultRow(<<"v">>, <<"4","8",".","8","8">>, <<"2",".","3","5">>,
                   Addr12RueDeLaPaix) >>,
      \* a match that is only the country
      << ResultRow(<<"w">>, <<"4","6",".","2">>, <<"2",".","2">>, AddrCountryOnly) >>,
      \* a match with an empty address at the shared coordinates
      << ResultRow(<<"y">>, <<"4","8",".","8","5">>, <<"2",".","3","5">>, <<>>) >> }

\* the k-th of sixteen distinct names
PlaceName(k) ==
    IF k <= Len(Letters) THEN <<Letters[k]>>
    ELSE <<Letters[k - Len(Letters)], Letters[k - Len(Letters)]>>

\* more than ten distinct names at one place, with and without a row that
\* repeats the first name
LargeGroupSizes == {11, 12}
LargeGroups ==
    { [k \in 1..d |-> SharedPlace(PlaceName(k))]
      \o [k \in 1..r |-> SharedPlace(PlaceName(1))] :
      d \in LargeGroupSizes, r \in {0, 1} }

ReportTables ==
    { [k \in 1..d |-> SharedPlace(<<Letters[k]>>)]
      \o [k \in 1..r |-> SharedPlace(<<Letters[1]>>)]
      \o extra :
      d \in 0..MaxNames, r \in {0, 1, 2}, extra \in ExtraRows }
    \cup LargeGroups

\* st.number_input("Error Detection Threshold", min_value=2, value=5)
Thresholds == {2, DefaultThreshold, DefaultThreshold + 1}

ReportInit ==
    /\ provider = "google"
    /\ country \in {Null, France}
    /\ search_without_locality_filter = FALSE
    /\ input_df = <<>>
    /\ output_file = NoFile
    /\ result_df \in ReportTables
    /\ processed_indices = {}
    /\ rows_to_process = <<>>
    /\ i = 0
    /\ query = Null
    /\ response = NoResponse
    /\ pc = "table"
    /\ run = "first"
    /\ failures = 0
    /\ log = <<>>
    /\ history = NoHistory
    /\ v_pc = "idle"
    /\ v_address = Null
    /\ v_country = Null
    /\ v_result = FALSE
    /\ fallback_without_location_filter = FALSE
    /\ error_threshold \in Thresholds
    /\ potential_errors = NoErrors
    /\ summary = NoSummary
    /\ updated_df = <<>>
    /\ progress_callback = "returns"

\* find_potential_errors called with the configured threshold
FindErrors ==
    /\ pc = "table"
    /\ potential_errors' = find_potential_errors(result_df, error_threshold)
    /\ pc' = "errors"
    /\ UNCHANGED <<params, output_file, result_df, processed_indices,
                   rows_to_process, i, query, response, run, failures, log,
                   history, validatorVars, fallback_without_location_filter,
                   error_threshold, summary, updated_df, progress_callback>>

\* variant: display_summary nulls the invalid rows in the table it is given
Summarise_InPlace ==
    /\ pc = "table"
    /\ summary' = display_summary(result_df, country).summary
    /\ updated_df' = display_summary(result_df, country).updated_df
    /\ result_df' = updated_df'
    /\ pc' = "summary"
    /\ UNCHANGED <<params, output_file, processed_indices,
                   rows_to_process, i, query, response, run, failures, log,
                   history, validatorVars, fallback_without_location_filter,
                   error_threshold, potential_errors, progress_callback>>

\* summary, filtered_df = display_summary(result_df, country=country,
\* name_column=name_column)
Summarise ==
    /\ pc = "table"
    /\ summary' = display_summary(result_df, country).summary
    /\ updated_df' = display_summary(result_df, country).updated_df
    /\ pc' = "summary"
    /\ UNCHANGED <<params, output_file, result_df, processed_indices,
                   rows_to_process, i, query, response, run, failures, log,
                   history, validatorVars, fallback_without_location_filter,
                   error_threshold, potential_errors, progress_callback>>

ReportNext == FindErrors \/ Summarise

ReportSpec == ReportInit /\ [][ReportNext]_vars

-----------------------------------------------------------------------------
(* Runs that are interrupted after a destination write and invoked again   *)
(* with the same input table and the same destination.                     *)

\* the process is stopped between two steps of a run that has written the
\* destination and whose provider has not failed; the caller then invokes
\* the runner again: nothing but the destination survives
Interrupt ==
    /\ pc \in {"loop", "write", "ckpt", "sleep", "progress", "final"}
    /\ run = "first"
    /\ output_file.exists
    /\ failures = 0
    /\ run' = "second"
    /\ history' = [output |-> output_file, result |-> result_df, log |-> log]
    /\ result_df' = <<>>
    /\ processed_indices' = {}
    /\ rows_to_process' = <<>>
    /\ i' = 0
    /\ query' = Null
    /\ response' = NoResponse
    /\ failures' = 0
    /\ log' = <<>>
    /\ pc' = "start"
    /\ UNCHANGED <<params, output_file, validatorVars, appVars>>

\* tables short enough for a second complete run, and one with a periodic
\* checkpoint before its last row
CrashTables(ctry) ==
    SmallTables \cup (IF Truthy(ctry) THEN {LargeTable(CheckpointEvery + 1)} ELSE {})

CrashInit ==
    /\ provider \in {"google", "nominatim"}
    /\ country \in {Null, France}
    /\ search_without_locality_filter = FALSE
    /\ input_df \in CrashTables(country)
    /\ output_file = NoFile
    /\ result_df = <<>>
    /\ processed_indices = {}
    /\ rows_to_process = <<>>
    /\ i = 0
    /\ query = Null
    /\ response = NoResponse
    /\ pc = "start"
    /\ run = "first"
    /\ failures = 0
    /\ log = <<>>
    /\ history = NoHistory
    /\ v_pc = "idle"
    /\ v_address = Null
    /\ v_country = Null
    /\ v_result = FALSE
    /\ AppIdle

CrashNext ==
    \/ Next
    \/ Interrupt

CrashSpec == CrashInit /\ [][CrashNext]_vars

-----------------------------------------------------------------------------
(* The runner followed by the report, as the app chains them: the table    *)
(* the runner returns is the table handed to the report functions.         *)

\* the runner has returned result_df; the app goes on to the summary
ShowResults ==
    /\ pc = "done"
    /\ pc' = "table"
    /\ UNCHANGED <<params, output_file, result_df, processed_indices,
                   rows_to_process, i, query, response, run, failures, log,
                   history, validatorVars, appVars>>

AppInit ==
    /\ CallbackInit
    /\ progress_callback = "returns"

AppNext ==
    \/ Next
    \/ ShowResults
    \/ FindErrors
    \/ Summarise

AppSpec == AppInit /\ [][AppNext]_vars

-----------------------------------------------------------------------------
(* The validator applied to candidate addresses *)

TestAddresses ==
    { <<"f","r","a","n","c","e">>,
      <<"f","r">>,
      <<"f","r","a">>,
      <<>>,
      <<" ">>,
      <<" ", "\t", "\n">>,
      <<"1","2"," ","r","u","e"," ","d","e"," ","l","a"," ","p","a","i","x",","," ",
        "p","a","r","i","s",","," ","f","r","a","n","c","e">>,
      Addr12RueDeLaPaix,
      <<" ","F","R"," ">>,
      <<"F","R","A","\n">>,
      <<"F","R","A","N","C","E">>,
      <<"F","r","e","n","c","h"," ","R","e","p","u","b","l","i","c">>,
      <<"g","a","u","l","e">>,
      <<"f","r","a","n","c","e",","," ","f","r">> }

TestCountries ==
    { Null, <<>>, France, <<" ","G","a","u","l","e"," ">>,
      <<"B","e","l","g","i","u","m">> }

\* the runner's variables while only the validator is exercised
RunnerIdle ==
    /\ provider = "google"
    /\ country = Null
    /\ search_without_locality_filter = FALSE
    /\ input_df = <<>>
    /\ output_file = NoFile
    /\ result_df = <<>>
    /\ processed_indices = {}
    /\ rows_to_process = <<>>
    /\ i = 0
    /\ query = Null
    /\ response = NoResponse
    /\ pc = "idle"
    /\ run = "first"
    /\ failures = 0
    /\ log = <<>>
    /\ history = NoHistory

ValidatorInit ==
    /\ RunnerIdle
    /\ AppIdle
    /\ v_pc = "candidate"
    /\ v_address \in TestAddresses \cup {Null}
    /\ v_country \in TestCountries
    /\ v_result = FALSE

\* is_valid_geocode_result on a one-element result list, or on the empty
\* list when there is no candidate (v_address = Null)
Validate ==
    /\ v_pc = "candidate"
    /\ v_result' = is_valid_geocode_result(
                      IF v_address = Null THEN <<>>
                      ELSE << [formatted_address |-> v_address] >>,
                      v_country)
    /\ v_pc' = "verdict"
    /\ UNCHANGED <<runnerVars, v_address, v_country, appVars>>

ValidatorNext == Validate

ValidatorSpec == ValidatorInit /\ [][ValidatorNext]_vars

-----------------------------------------------------------------------------
(* Vocabulary of the properties *)

Range(s) == { s[k] : k \in 1..Len(s) }

\* the row has coordinates and an address
Resolved(row) == notna(row["Lat"]) /\ notna(row["Lng"]) /\ notna(row["Address"])

\* the row has none of them
Unresolved(row) == row["Lat"] = Null /\ row["Lng"] = Null /\ row["Address"] = Null

\* a provider request was issued for row r in this run
Called(r) == CallEvent(r) \in Range(log)

\* rows whose provider call raised in this run
Errored == { r \in 1..Len(input_df) : ErrorEvent(r) \in Range(log) }

\* a row of the destination, as written by the first run, has coordinates
PersistedResolved(file, r) ==
    /\ file.exists
    /\ r \in 1..Len(file.rows)
    /\ file.rows[r]["Lat"] # <<>>
    /\ file.rows[r]["Lng"] # <<>>

-----------------------------------------------------------------------------
(* C1 *)

\* C1: a row that the first run resolved and persisted is not requested from
\* the provider by a second run with the same input and destination, and
\* neither is any row with the same name.
C1_NoRequeryOfResolvedRows ==
    run = "second" =>
        \A r \in 1..Len(input_df) :
            (Resolved(history.result[r]) /\ PersistedResolved(history.output, r)) =>
                \A m \in 1..Len(input_df) :
                    input_df[m]["name"] = input_df[r]["name"] => ~Called(m)

-----------------------------------------------------------------------------
(* C2 *)

\* C2: with a provider that answers the same query the same way (no call
\* raises in either run), the destination after the second run equals the
\* destination after the first run in every column.
C2_SecondRunSameOutput ==
    (run = "second" /\ pc = "done" /\ Errored = {}
       /\ ~(\E e \in Range(history.log) : e[1] = "error"))
    => output_file = history.output

-----------------------------------------------------------------------------
(* C3 *)

\* the provider requests and the destination writes of the log, in order
CallsAndSaves(lg) == SelectSeq(lg, LAMBDA e : e[1] \in {"call", "save"})

\* requests for rows a..b in table order
Calls(a, b) == [k \in 1..(b - a + 1) |-> CallEvent(a + k - 1)]

\* a run over 23 rows, none skipped and none failing, has returned
C3_Case ==
    /\ pc = "done"
    /\ run = "first"
    /\ Len(rows_to_process) = 23
    /\ Errored = {}

\* C3 (as stated): with 23 rows to process, no prior output and no failing
\* call, the destination is written exactly 3 times: after row 10, after
\* row 20 and after row 23.
C3_ThreeWrites ==
    C3_Case =>
        CallsAndSaves(log) =
            Calls(1, 10) \o <<SaveEvent(10, Periodic)>>
            \o Calls(11, 20) \o <<SaveEvent(20, Periodic)>>
            \o Calls(21, 23) \o <<SaveEvent(23, Periodic)>>

\* C3 (amended): the destination is written exactly 4 times: after row 10,
\* after row 20, after row 23 by the checkpoint of the last row, and once
\* more by the final save after the loop, which writes the same table again.
C3_FourWrites ==
    C3_Case =>
        /\ CallsAndSaves(log) =
              Calls(1, 10) \o <<SaveEvent(10, Periodic)>>
              \o Calls(11, 20) \o <<SaveEvent(20, Periodic)>>
              \o Calls(21, 23) \o <<SaveEvent(23, Periodic)>>
              \o <<SaveEvent(23, Final)>>
        /\ output_file = to_csv(result_df, Cols)

C3_Witness == C3_Case /\ \E r \in 1..23 : Resolved(result_df[r])

-----------------------------------------------------------------------------
(* C4 *)

\* rows of this run whose outcome has been written to result_df
Written ==
    { rows_to_process[k] : k \in 1..i }
    \cup (IF pc \in {"ckpt", "sleep", "progress"} THEN {idx} ELSE {})

\* rows whose outcome is in result_df and not in the destination
Unpersisted ==
    { r \in Written :
        /\ result_df[r] # AddColumns(input_df, provider)[r]
        /\ ~(/\ output_file.exists
             /\ output_file.rows[r] = to_csv(result_df, Cols).rows[r]) }

\* C4 (as stated): at every point of a run at most 9 rows have an outcome in
\* the in-memory table that is not in the destination.
C4_AtMostNineUnpersisted == Cardinality(Unpersisted) <= 9

\* C4 (amended): at most 10 rows; 10 is reached only between the write of
\* the 10th row since the last save and the checkpoint that follows it, and
\* at every provider call, pause and callback the number is at most 9.
C4_AtMostTenUnpersisted ==
    /\ Cardinality(Unpersisted) <= 10
    /\ pc # "ckpt" => Cardinality(Unpersisted) <= 9

C4_Witness == pc = "ckpt" /\ Cardinality(Unpersisted) = 10

-----------------------------------------------------------------------------
(* C5 *)

\* the row a run writes for r when the call for r returns
ExpectedRow(start, r) ==
    RowOutcome(start[r], provider_call(start[r], BuildQuery(start[r], country)))

\* the table with which this run started: after the first run the
\* destination it read is the one recorded in history
StartTable ==
    LoadExisting(AddColumns(input_df, provider),
                 IF run = "first" THEN NoFile ELSE history.output,
                 provider).df

\* the run has returned and the provider raised on exactly one row
C5_Case == pc = "done" /\ Cardinality(Errored) = 1 /\ failures = 1

\* C5: if the provider raises on exactly one row k, every later row is still
\* requested, row k ends with Lat, Lng and Address null, and every other row
\* ends as in a run in which the call for k had returned.
C5_OneFailureIsIsolated ==
    C5_Case =>
        \A k \in Errored :
            /\ \A r \in Range(rows_to_process) : Called(r)
            /\ Unresolved(result_df[k])
            /\ \A r \in 1..Len(input_df) :
                  r # k =>
                     result_df[r] = IF r \in Range(rows_to_process)
                                    THEN ExpectedRow(StartTable, r)
                                    ELSE StartTable[r]

C5_Witness ==
    /\ C5_Case
    /\ \E k \in Errored, r \in Range(rows_to_process) :
          r > k /\ Resolved(result_df[r])

-----------------------------------------------------------------------------
(* C6 *)

\* position of row r in rows_to_process
PositionOf(r) == CHOOSE k \in 1..Len(rows_to_process) : rows_to_process[k] = r

\* C6: after a provider call raises, the next events of the run are, in this
\* order, a write of the destination, the error cooldown and one progress
\* callback for that row, all before the next provider request; the table
\* written is the whole in-memory table; the cooldown is longer than the
\* pause after a successful row.
C6_ErrorPathOrder ==
    /\ \A p \in 1..Len(log) :
          log[p][1] = "error" =>
             LET r == log[p][2]
             IN  /\ Len(log) >= p + 1 =>
                       log[p + 1] = SaveEvent(PositionOf(r), OnError)
                 /\ Len(log) >= p + 2 => log[p + 2] = SleepEvent(ErrorCooldown)
                 /\ Len(log) >= p + 3 =>
                       log[p + 3] = ProgressEvent(PositionOf(r), Len(rows_to_process))
                 /\ Len(log) >= p + 4 => log[p + 4][1] \in {"call", "save"}
                 /\ (\E q \in (p + 1)..Len(log) : log[q][1] = "call")
                       => Len(log) >= p + 3
    /\ pc \in {"exc_sleep", "exc_progress"} =>
          output_file = to_csv(result_df, Cols)
    /\ ErrorCooldown > NormalPause(provider)

C6_Witness ==
    \E p \in 1..Len(log) :
        /\ log[p][1] = "error"
        /\ Len(log) >= p + 4
        /\ log[p + 4][1] = "call"
        /\ \E r \in 1..Len(result_df) : Resolved(result_df[r])

-----------------------------------------------------------------------------
(* C7 *)

\* every row to process has been requested from the provider
AllAttempted == \A r \in Range(rows_to_process) : Called(r)

\* C7: every run reaches normal completion, and a run that has completed
\* has requested every non-skipped row, whatever the provider returned or
\* raised.
C7_RunAlwaysDrains ==
    /\ [](pc = "done" => AllAttempted)
    /\ [](pc = "start" => <>(pc = "done"))

C7_Witness ==
    /\ pc = "done"
    /\ Errored # {}
    /\ \E r \in Range(rows_to_process) : r \notin Errored /\ Resolved(result_df[r])
    /\ \E r \in Range(rows_to_process) : r \notin Errored /\ Unresolved(result_df[r])

-----------------------------------------------------------------------------
(* C8 *)

\* C8: when a run has completed, the destination exists and holds the table
\* the runner returns, as to_csv writes it.
C8_DestinationHoldsReturnedTable ==
    pc = "done" => output_file.exists /\ output_file = to_csv(result_df, Cols)

\* a second run in which every row was skipped
C8_Witness ==
    /\ pc = "done"
    /\ run = "second"
    /\ Len(input_df) > 0
    /\ rows_to_process = <<>>

-----------------------------------------------------------------------------
(* C9 *)

\* the address of the first match of a response, Null without a match
MatchAddress(resp) ==
    IF resp.kind = "google"
    THEN IF resp.list = <<>> THEN Null ELSE resp.list[1].formatted_address
    ELSE IF resp.kind = "nominatim"
    THEN IF resp.http.status_code = 200 /\ resp.http.results # <<>>
         THEN resp.http.results[1].display_name ELSE Null
    ELSE Null

\* empty, or a country-only string, after trimming and lowercasing
CountryOnlyOrEmpty(address, ctry) ==
    Lower(Strip(address)) \in country_terms(ctry) \cup {<<>>}

\* C9: for both providers, a match whose address is empty or country-only
\* never populates Lat, Lng or Address of its row.
C9_InvalidMatchNeverPopulates ==
    (/\ pc = "ckpt"
     /\ MatchAddress(response) # Null
     /\ CountryOnlyOrEmpty(MatchAddress(response), country))
    => Unresolved(result_df[idx])

-----------------------------------------------------------------------------
(* C10 *)

\* C10: the validator rejects "france" when the country is "France",
\* rejects "fr" and "fra" whatever the country (none included), rejects an
\* empty or whitespace-only address, accepts "12 rue de la paix, paris,
\* france", and compares after trimming and lowercasing the address (so the
\* same strings in upper case or within whitespace get the same verdict; a
\* word that is no country is rejected only as the supplied country).
C10_ValidatorVerdicts ==
    (v_pc = "verdict" /\ v_address # Null) =>
        /\ (v_address = <<"f","r","a","n","c","e">> /\ v_country = France)
              => ~v_result
        /\ v_address \in {<<"f","r">>, <<"f","r","a">>} => ~v_result
        /\ v_address \in {<<>>, <<" ">>, <<" ", "\t", "\n">>} => ~v_result
        /\ v_address \in
              { <<"1","2"," ","r","u","e"," ","d","e"," ","l","a"," ","p","a","i","x",
                  ","," ","p","a","r","i","s",","," ","f","r","a","n","c","e">>,
                Addr12RueDeLaPaix } => v_result
        /\ v_address \in { <<" ","F","R"," ">>, <<"F","R","A","\n">>,
                           <<"F","R","A","N","C","E">> } => ~v_result
        /\ v_address = <<"g","a","u","l","e">>
              => (v_result <=> v_country # <<" ","G","a","u","l","e"," ">>)

C10_Witness ==
    /\ v_pc = "verdict"
    /\ v_address = <<" ","F","R"," ">>
    /\ v_country = Null
    /\ ~v_result

-----------------------------------------------------------------------------
(* C11 *)

\* a row of the loop is between the provider call and the end of its
\* iteration
InIteration ==
    pc \in {"write", "ckpt", "sleep", "progress",
            "exc_save", "exc_sleep", "exc_progress"}

\* text is present and not empty
NonEmpty(v) == v # Null /\ v # <<>>

\* C11: the query sent to the provider for a row is the name (the empty
\* string when the name is missing), then ", " and the city when the city is
\* present and non-empty, then ", " and the country when the country is
\* present and non-empty; with all three it is "name, city, country", and
\* a missing city or country drops that segment and its separator.  The
\* request is sent whatever the name.
C11_QueryOfRow ==
    InIteration =>
        LET row == input_df[idx]
            name == IF row["name"] = Null THEN <<>> ELSE row["name"]
            hasCity == "city" \in DOMAIN row /\ NonEmpty(row["city"])
        IN  /\ query = name
                       \o (IF hasCity THEN <<",", " ">> \o row["city"] ELSE <<>>)
                       \o (IF NonEmpty(country) THEN <<",", " ">> \o country
                           ELSE <<>>)
            /\ (row = [name |-> <<"s">>, city |-> <<"x">>] /\ country = France)
                  => query = <<"s", ",", " ", "x", ",", " ",
                               "F", "r", "a", "n", "c", "e">>
            /\ (row = [name |-> <<"s">>, city |-> <<>>] /\ country = France)
                  => query = <<"s", ",", " ", "F", "r", "a", "n", "c", "e">>
            /\ (row = [name |-> <<"s">>, city |-> <<"x">>] /\ country = <<>>)
                  => query = <<"s", ",", " ", "x">>
            /\ Called(idx)

\* a row without name was sent with its city and the country
C11_Witness ==
    /\ pc = "write"
    /\ input_df[idx] = [name |-> Null, city |-> <<"x">>]
    /\ query = <<",", " ", "x", ",", " ", "F", "r", "a", "n", "c", "e">>
    /\ Called(idx)

-----------------------------------------------------------------------------
(* C12 *)

\* the destination as the run found it
PriorFile == IF run = "first" THEN NoFile ELSE history.output

\* C12: at every point of a run after the resume step, whatever the prior
\* file holds, every row of the in-memory table has Lat, Lng and Address
\* all present or all absent.
C12_RowsWholeOrEmpty ==
    pc \notin {"start", "idle"} =>
        \A r \in 1..Len(result_df) :
            Resolved(result_df[r]) \/ Unresolved(result_df[r])

-----------------------------------------------------------------------------
(* C13 *)

\* the prior file exists and cannot be read or lacks a required column
Malformed(file) ==
    /\ file.exists
    /\ ~({"Lat", "Lng", "Address", "name"} \subseteq file.cols)

\* C13: with a prior file that cannot be read or lacks Lat, Lng, Address
\* or the name column, the run does not fail: no row is skipped, the table
\* after the resume step is the input with empty result columns, every row
\* is requested, and the run ends with the rows a run without prior file
\* computes.
C13_MalformedPriorIsIgnored ==
    (Malformed(PriorFile) /\ pc # "start") =>
        /\ pc # "crashed"
        /\ processed_indices = {}
        /\ rows_to_process = [k \in 1..Len(input_df) |-> k]
        /\ (pc = "loop" /\ i = 0) => result_df = AddColumns(input_df, provider)
        /\ pc = "done" =>
              \A r \in 1..Len(input_df) :
                  /\ Called(r)
                  /\ r \notin Errored =>
                        result_df[r] = ExpectedRow(AddColumns(input_df, provider), r)

\* a completed run whose unusable prior file held a resolved row with the
\* name of a current row
C13_Witness ==
    /\ Malformed(PriorFile)
    /\ "name" \in PriorFile.cols
    /\ pc = "done"
    /\ \E r \in 1..Len(input_df), k \in 1..Len(PriorFile.rows) :
          /\ PriorFile.rows[k]["name"] = input_df[r]["name"]
          /\ Called(r)
          /\ Resolved(result_df[r])

-----------------------------------------------------------------------------
(* C20 *)

\* prior rows with both coordinates, in a prior file that can be used
PriorResolved ==
    IF PriorFile.exists /\ ~Malformed(PriorFile)
    THEN { k \in 1..Len(PriorFile.rows) :
             PriorFile.rows[k]["Lat"] # <<>> /\ PriorFile.rows[k]["Lng"] # <<>> }
    ELSE {}

\* current rows whose name is the name of such a prior row; a missing
\* name equals no name
NameOfPriorResolved ==
    { m \in 1..Len(input_df) :
        /\ input_df[m]["name"] # Null
        /\ \E k \in PriorResolved :
              PriorFile.rows[k]["name"] = input_df[m]["name"] }

\* C20: after the resume step of a run that can use its prior file, the
\* skipped rows are exactly the current rows whose name equals the name of
\* a prior row with Lat and Lng; the rows requested in the run are exactly
\* the others, in particular every row left unresolved in the prior file
\* unless a prior row of the same name is resolved, and current rows of the
\* same name are skipped together.
C20_SkippedAreNamesOfPriorResolved ==
    pc \notin {"start", "idle"} =>
        /\ processed_indices = NameOfPriorResolved
        /\ Range(rows_to_process) = (1..Len(input_df)) \ NameOfPriorResolved
        /\ \A r \in 1..Len(input_df) : Called(r) => r \notin NameOfPriorResolved
        /\ pc = "done" =>
              \A r \in (1..Len(input_df)) \ NameOfPriorResolved : Called(r)
        /\ \A m, n \in 1..Len(input_df) :
              (input_df[m]["name"] = input_df[n]["name"] /\ input_df[m]["name"] # Null)
                 => (m \in processed_indices <=> n \in processed_indices)

\* two current rows named "s" are skipped because of the second prior row;
\* the first prior row of that name was left unresolved
C20_Witness ==
    /\ pc = "done"
    /\ Len(input_df) = 2
    /\ processed_indices = {1, 2}
    /\ Len(PriorFile.rows) = 2
    /\ PriorFile.rows[1]["name"] = <<"s">>
    /\ PriorFile.rows[1]["Lat"] = <<>>
    /\ PriorFile.rows[2]["name"] = <<"s">>
    /\ 2 \in PriorResolved

-----------------------------------------------------------------------------
(* C14 *)

\* provider requests issued for row r in this run
CallsFor(r) == Cardinality({ p \in 1..Len(log) : log[p] = CallEvent(r) })

\* the locality-filtered search of the current row returned a country-only
\* address, and the row step is past its writes
C14_Case ==
    /\ provider = "google"
    /\ ~search_without_locality_filter
    /\ pc \in {"ckpt", "sleep", "progress"}
    /\ response.list # <<>>
    /\ response.list[1].formatted_address = AddrCountryOnly
    /\ country = France

\* C14: in locality-filtered mode, when the first result is a country-only
\* address, a set fallback flag makes the runner issue exactly one further,
\* unfiltered, search for the row within the row step, and the locality
\* flag of the row then tells that the unfiltered search was used; without
\* the flag there is one search only.
C14_FallbackSearchesAgain ==
    C14_Case =>
        IF fallback_without_location_filter
        THEN /\ CallsFor(idx) = 2
             /\ result_df[idx]["Locality_Filter"] = BoolText(FALSE)
        ELSE /\ CallsFor(idx) = 1
             /\ result_df[idx]["Locality_Filter"] = BoolText(TRUE)

-----------------------------------------------------------------------------
(* C15 *)

\* the invocations of the progress callback in this run, in order
ProgressEvents == SelectSeq(log, LAMBDA e : e[1] = "progress")

\* rows the resume step did not skip
NonSkipped == (1..Len(input_df)) \ processed_indices

\* C15: with N non-skipped rows the callback is invoked once after each
\* row, whatever the outcome of the row, with (1, N), (2, N), ... in this
\* order: invocation k comes after the request of the k-th non-skipped row
\* and before the request of the next one, a completed run has made exactly
\* N invocations, and none when N = 0.
C15_OneCallbackPerRow ==
    pc \notin {"start", "idle"} =>
        LET N == Cardinality(NonSkipped)
        IN  /\ Len(rows_to_process) = N
            /\ ProgressEvents = [k \in 1..Len(ProgressEvents) |-> ProgressEvent(k, N)]
            /\ Len(ProgressEvents) <= N
            /\ pc \in {"final", "done"} => Len(ProgressEvents) = N
            /\ \A p, q \in 1..Len(log) :
                  (log[p][1] = "progress" /\ log[q][1] = "call") =>
                     (q < p <=> PositionOf(log[q][2]) <= log[p][2])
            /\ \A q \in 1..Len(log) :
                  log[q][1] = "call" =>
                     Len(SelectSeq(SubSeq(log, 1, q), LAMBDA e : e[1] = "progress"))
                        = PositionOf(log[q][2]) - 1

\* a completed run with a skipped row and a row whose request raised
C15_Witness ==
    /\ pc = "done"
    /\ processed_indices # {}
    /\ Errored # {}
    /\ Len(ProgressEvents) = Cardinality(NonSkipped)

-----------------------------------------------------------------------------
(* C18 *)

\* the time slept between positions p and q of the log, in tenths of a
\* second
RECURSIVE SleptBetween(_, _)
SleptBetween(p, q) ==
    IF p >= q THEN 0
    ELSE (IF log[p][1] = "sleep" THEN log[p][2] ELSE 0) + SleptBetween(p + 1, q)

\* C18: in a Nominatim run at least 1.1 s of pause lie between any two
\* consecutive requests, whether the earlier one returned a match, no
\* result or a status other than 200, or raised.
C18_NominatimSpacing ==
    provider = "nominatim" =>
        \A p, q \in 1..Len(log) :
            (p < q /\ log[p][1] = "call" /\ log[q][1] = "call")
               => SleptBetween(p, q) >= 11

\* a second request was sent after a request answered with status 503 and
\* after a request that raised
C18_Witness ==
    /\ provider = "nominatim"
    /\ country = Null
    /\ Len(input_df) = 2
    /\ input_df[1]["name"] = <<"t">>
    /\ run = "second"
    /\ Called(2)
    /\ \E r \in 1..2 : ErrorEvent(r) \in Range(history.log)
    /\ CallEvent(1) \in Range(history.log) /\ CallEvent(2) \in Range(history.log)
    /\ 1 \notin Errored

-----------------------------------------------------------------------------
(* C16 *)

\* the coordinate pairs of the rows of a table that have both coordinates
KeysOf(df) ==
    { df[k]["Lat"] \o <<",">> \o df[k]["Lng"] :
        k \in { n \in 1..Len(df) : df[n]["Lat"] # Null /\ df[n]["Lng"] # Null } }

\* the distinct names of the rows of a table at one coordinate pair
NamesAt(df, key) ==
    { df[k]["name"] :
        k \in { n \in 1..Len(df) :
                  /\ df[n]["Lat"] # Null /\ df[n]["Lng"] # Null
                  /\ df[n]["Lat"] \o <<",">> \o df[n]["Lng"] = key } }

\* the table of five rows with distinct names at one place
FiveNamesOnePlace == [k \in 1..5 |-> SharedPlace(<<Letters[k]>>)]

-----------------------------------------------------------------------------
(* C17 *)

\* the addresses of the rows of a table that have both coordinates
AddressesOf(df) ==
    { df[k]["Address"] :
        k \in { n \in 1..Len(df) :
                  df[n]["Lat"] # Null /\ df[n]["Lng"] # Null /\ df[n]["Address"] # Null } }

\* the distinct names of the rows of a table at one address
NamesWithAddress(df, a) ==
    { df[k]["name"] :
        k \in { n \in 1..Len(df) :
                  /\ df[n]["Lat"] # Null /\ df[n]["Lng"] # Null
                  /\ df[n]["Address"] = a } }

\* C17: the groups display_summary returns are exactly the groups of the
\* normalized table whose distinct-name count is at least the threshold
\* configured by the caller, for every threshold from 2 up.
C17_SummaryUsesConfiguredThreshold ==
    pc = "summary" =>
        /\ { g.coordinates : g \in summary.potential_errors.duplicate_coordinates }
              = { key \in KeysOf(updated_df) :
                    Cardinality(NamesAt(updated_df, key)) >= error_threshold }
        /\ { g.address : g \in summary.potential_errors.duplicate_addresses }
              = { a \in AddressesOf(updated_df) :
                    Cardinality(NamesWithAddress(updated_df, a)) >= error_threshold }

-----------------------------------------------------------------------------
(* C19 *)

\* rows of the normalized table that have coordinates
WithCoordinates ==
    { k \in 1..Len(updated_df) :
        updated_df[k]["Lat"] # Null /\ updated_df[k]["Lng"] # Null }

\* C19: for a table without rows display_summary returns success_rate 0;
\* otherwise success_rate is the rows with coordinates divided by the rows
\* of the table, times 100; rows with and rows without coordinates add up
\* to the rows of the table.  The rows counted are those of the normalized
\* table.
C19_SuccessRate ==
    pc = "summary" =>
        LET total == Len(result_df)
        IN  /\ summary.total_locations = total
            /\ summary.locations_with_coordinates = Cardinality(WithCoordinates)
            /\ summary.locations_with_coordinates
                  + summary.locations_without_coordinates = total
            /\ total = 0 => summary.success_rate = [num |-> 0, den |-> 1]
            /\ total > 0 =>
                  /\ summary.success_rate.den > 0
                  /\ summary.success_rate.num * total
                        = Cardinality(WithCoordinates) * 100 * summary.success_rate.den

\* the summary of a table without rows
C19_Witness ==
    /\ pc = "summary"
    /\ result_df = <<>>
    /\ summary.total_locations = 0
    /\ summary.success_rate = [num |-> 0, den |-> 1]

-----------------------------------------------------------------------------
(* C21 *)

\* the columns that hold what a provider adds besides Lat, Lng and Address
ProviderFields(p) ==
    IF p = "google" THEN {"Maps_Link", "Locality_Filter"}
    ELSE {"OSM_ID", "OSM_Type"}

\* a field of a prior file as a value of the table (an empty field is a
\* missing value)
PriorValue(t) == IF t = <<>> THEN <<"NaN">> ELSE t

\* C21: in the final output of a run that resumed, every skipped row has
\* the Lat, Lng, Address and provider fields (Maps_Link and Locality_Filter,
\* or OSM_ID and OSM_Type) of a resolved prior row of its name, for each of
\* these columns that the prior file has.
C21_SkippedCarryPriorFields ==
    (pc = "done" /\ PriorFile.exists /\ ~Malformed(PriorFile)) =>
        \A m \in processed_indices :
            \E k \in PriorResolved :
                /\ PriorFile.rows[k]["name"] = input_df[m]["name"]
                /\ \A c \in ({"Lat", "Lng", "Address"} \cup ProviderFields(provider))
                              \cap PriorFile.cols :
                      result_df[m][c] = PriorValue(PriorFile.rows[k][c])

-----------------------------------------------------------------------------
(* C22 *)

\* position of the last provider request in the log
LastCall == CHOOSE p \in 1..Len(log) :
               log[p][1] = "call" /\ \A q \in (p + 1)..Len(log) : log[q][1] # "call"

\* C22: when the Nominatim service answers a request with a status other
\* than 200, the row is handled as a provider failure: by the time of the
\* progress callback the destination has been written for that row and the
\* error cooldown, not the normal pause, has been slept.
C22_Non200TakesErrorPath ==
    (/\ pc = "progress"
     /\ response.kind = "nominatim"
     /\ response.http.status_code # 200)
    => /\ \E q \in (LastCall + 1)..Len(log) : log[q][1] = "save"
       /\ \E q \in (LastCall + 1)..Len(log) : log[q] = SleepEvent(20)
       /\ ~\E q \in (LastCall + 1)..Len(log) : log[q] = SleepEvent(11)

-----------------------------------------------------------------------------
(* C26 *)

\* C26: in the final output of a run of the Google runner every row has
\* Locality_Filter True or False, never a missing value, and a resolved
\* row has True when the search was locality-filtered and False when not.
C26_LocalityFilterNeverNull ==
    (pc = "done" /\ provider = "google") =>
        \A r \in 1..Len(result_df) :
            /\ result_df[r]["Locality_Filter"]
                  \in {<<"T","r","u","e">>, <<"F","a","l","s","e">>}
            /\ Resolved(result_df[r]) =>
                  (result_df[r]["Locality_Filter"] = <<"T","r","u","e">>
                     <=> ~search_without_locality_filter)

-----------------------------------------------------------------------------
(* C27 *)

\* C27: after the normalization of display_summary every row that still
\* has coordinates has an address that is neither empty nor, trimmed and
\* lowercased, the supplied country or a country name, official name or
\* 2- or 3-letter code.
C27_NormalizedRowsAreValid ==
    pc = "summary" =>
        \A k \in 1..Len(updated_df) :
            updated_df[k]["Lat"] # Null =>
                /\ updated_df[k]["Address"] # Null
                /\ ~CountryOnlyOrEmpty(updated_df[k]["Address"], country)

-----------------------------------------------------------------------------
(* C23 *)

\* the provider answered the request of the current row, without raising,
\* with an empty result set
EmptyResult ==
    /\ InIteration
    /\ log[LastCall] = CallEvent(idx)
    /\ ErrorEvent(idx) \notin Range(log)
    /\ \/ response.kind = "google" /\ response.list = <<>>
       \/ /\ response.kind = "nominatim"
          /\ response.http.status_code = 200
          /\ response.http.results = <<>>

\* what the log holds after the last request
SinceLastCall == SubSeq(log, LastCall + 1, Len(log))

\* C23: for both providers a row whose request returned an empty result
\* set is not an error: Lat, Lng and Address stay null, the except path is not
\* taken (no write on error, no error cooldown), the destination is written
\* only when the row is a 10th row or the last one, the normal pause (0.3 s
\* or 1.1 s) is slept, and a completed run has requested every row it did
\* not skip.
C23_EmptyResultIsNoResult ==
    /\ EmptyResult =>
          /\ pc \in {"write", "ckpt", "sleep", "progress"}
          /\ Unresolved(result_df[idx])
          /\ pc = "progress" =>
                SinceLastCall =
                    (IF (i + 1) % 10 = 0 \/ i + 1 = Len(rows_to_process)
                     THEN << <<"save", i + 1, 0>> >> ELSE << >>)
                    \o << <<"sleep", IF provider = "google" THEN 3 ELSE 11, 0>> >>
    /\ pc = "done" => \A r \in NonSkipped : Called(r)

C23_Witness ==
    /\ EmptyResult
    /\ pc = "progress"
    /\ i + 1 < Len(rows_to_process)

-----------------------------------------------------------------------------
(* C24 *)

\* the rows of the requests of this run, in the order of the requests
RequestedRows ==
    LET calls == SelectSeq(log, LAMBDA e : e[1] = "call")
    IN  [k \in 1..Len(calls) |-> calls[k][2]]

\* C24: within one run no row is requested twice, whatever the outcome of
\* its request, skipped rows are not requested, the requests are issued in
\* the order of the table (the requests before that of a row are those of
\* the non-skipped rows before it), and a completed run has requested every non-skipped row
\* exactly once.
C24_OneRequestPerRowInOrder ==
    pc \notin {"start", "idle"} =>
        LET requested == RequestedRows
        IN  /\ \A j, k \in 1..Len(requested) : j # k => requested[j] # requested[k]
            /\ \A k \in 1..Len(requested) : requested[k] \notin processed_indices
            /\ \A k \in 1..Len(requested) :
                  { r \in NonSkipped : r < requested[k] }
                      = { requested[j] : j \in 1..(k - 1) }
            /\ pc = "done" =>
                  NonSkipped = { requested[k] : k \in 1..Len(requested) }

C24_Witness ==
    /\ pc = "done"
    /\ Len(RequestedRows) >= 2
    /\ Errored # {}
    /\ \E r \in NonSkipped : r \notin Errored /\ Unresolved(result_df[r])

-----------------------------------------------------------------------------
(* C25 *)

\* the destination writes of this run, in order
Writes == SelectSeq(log, LAMBDA e : e[1] = "save")

\* C25: whatever the progress callback does, raising included, the run is
\* the run made with a callback that returns: the runner is not left by an
\* exception, the destination is written on error only right after a failed
\* provider request, and the error cooldown is slept only after such a
\* write.
C25_CallbackIsObservational ==
    /\ pc # "crashed"
    /\ \A p \in 1..Len(log) :
          /\ log[p] = <<"save", log[p][2], 1>> => (p > 1 /\ log[p - 1][1] = "error")
          /\ log[p] = <<"sleep", 20, 0>> => (p > 2 /\ log[p - 2][1] = "error")

-----------------------------------------------------------------------------
(* C28 *)

\* a sample of a group: min(10, count) entries, of pairwise distinct names,
\* each the name, Lat, Lng and Address of a row of the table
WellFormedSample(sample, count, df) ==
    /\ Len(sample) = (IF count < 10 THEN count ELSE 10)
    /\ \A a, b \in 1..Len(sample) : a # b => sample[a]["name"] # sample[b]["name"]
    /\ \A a \in 1..Len(sample) :
          \E n \in 1..Len(df) :
              /\ df[n]["Lat"] # Null /\ df[n]["Lng"] # Null
              /\ sample[a] = [c \in {"name", "Lat", "Lng", "Address"} |-> df[n][c]]

-----------------------------------------------------------------------------
(* C29 *)

\* C29: no step of a runner changes the caller's input table, and
\* display_summary and find_potential_errors leave the table they are given
\* as it was: the rows display_summary nulls are nulled in the table it
\* returns only.
C29_CallerTablesUnchanged ==
    [][ /\ input_df' = input_df
        /\ pc = "table" => result_df' = result_df ]_vars

\* display_summary has returned a table that differs from the one it was
\* given, which is the output of a run that resolved a row
C29_Witness ==
    /\ pc = "summary"
    /\ updated_df # result_df
    /\ Len(input_df) = 2
    /\ \E r \in 1..Len(result_df) : Resolved(result_df[r])

-----------------------------------------------------------------------------
(* C30 *)

\* this run follows a run that was stopped before its final save
AfterInterrupt ==
    /\ run = "second"
    /\ \A p \in 1..Len(history.log) : history.log[p] # <<"save", history.log[p][2], 2>>

\* the provider failed neither in this run nor in the one before
NoFailure ==
    /\ \A p \in 1..Len(log) : log[p][1] # "error"
    /\ \A p \in 1..Len(history.log) : history.log[p][1] # "error"

\* the table one uninterrupted run without prior file ends with
Uninterrupted ==
    [r \in 1..Len(input_df) |-> ExpectedRow(AddColumns(input_df, provider), r)]

\* C30: when a run is stopped after a destination write and the runner is
\* invoked again with the same input and destination, with a provider that
\* answers the same way and does not fail, the final output is, in every
\* column, the output of one uninterrupted run, and the second run requests
\* only rows that the destination it found does not hold as resolved.
C30_CrashResumeEquivalence ==
    (pc = "done" /\ AfterInterrupt /\ NoFailure) =>
        /\ output_file = to_csv(Uninterrupted, Cols)
        /\ \A r \in 1..Len(input_df) :
              Called(r) => ~PersistedResolved(history.output, r)

-----------------------------------------------------------------------------
(* C31 *)

\* the prior rows with coordinates that have the name of current row m
PriorOfName(m) ==
    { k \in PriorResolved : PriorFile.rows[k]["name"] = input_df[m]["name"] }

\* the last of them in file order
LastPriorOfName(m) ==
    CHOOSE k \in PriorOfName(m) : \A j \in PriorOfName(m) : j <= k

\* C31: when the prior output holds one or several rows with coordinates
\* that have the name of a current row, the current row has, from the end
\* of the resume step on, the Lat, Lng and Address of the last of these
\* prior rows in file order, it is skipped and it is not requested; so all
\* current rows of one name carry the same Lat, Lng and Address.
C31_LastPriorRowWins ==
    pc \notin {"start", "idle"} =>
        \A m \in 1..Len(input_df) :
            PriorOfName(m) # {} =>
                /\ \A c \in {"Lat", "Lng", "Address"} :
                      result_df[m][c]
                         = PriorValue(PriorFile.rows[LastPriorOfName(m)][c])
                /\ m \in processed_indices
                /\ ~Called(m)

\* two current rows of one name, two prior rows of that name with different
\* coordinates and addresses: both current rows end with those of the second
C31_Witness ==
    /\ pc = "done"
    /\ Len(input_df) = 2
    /\ Len(PriorFile.rows) = 2
    /\ PriorOfName(1) = {1, 2}
    /\ PriorOfName(2) = {1, 2}
    /\ PriorFile.rows[1]["Lat"] # PriorFile.rows[2]["Lat"]
    /\ PriorFile.rows[1]["Address"] # PriorFile.rows[2]["Address"]
    /\ result_df[1]["Lat"] = PriorFile.rows[2]["Lat"]
    /\ result_df[2]["Address"] = PriorFile.rows[2]["Address"]

=============================================================================
